---- MODULE Spec2Model ----
(***************************************************************************)
(* State-machine model of cuml.decomposition.tsvd: one TruncatedSVD        *)
(* estimator and the calls made on it (fit, fit_transform, transform,      *)
(* inverse_transform, get_params, set_params).  The native routines        *)
(* tsvdFit / tsvdFitTransform / tsvdTransform / tsvdInverseTransform are   *)
(* outside the wrapper; the model records which one is invoked and with    *)
(* which arguments.                                                        *)
(***************************************************************************)
EXTENDS Integers, Sequences, FiniteSets, TLC

VARIABLES
    est,    \* the estimator: self.* and self.params.*
    last,   \* what the most recent call let its caller observe
    hist,   \* history: constructor arguments, whether a fit has returned,
            \* whether set_params was called, the input of the latest fit,
            \* the n_iter of the latest set_params call that took one
    lib     \* the array library's treatment of empty arrays

vars == <<est, last, hist, lib>>

(***************************************************************************)
(* Bounds.                                                                 *)
(***************************************************************************)
\* row count of the non-empty input matrices
MaxRows == 1
\* largest column count of an input matrix, largest n_components
MaxCols == 2
\* largest number of keyword arguments in one set_params call
MaxUpdates == 2

(***************************************************************************)
(* Python values: None is the empty tuple, any other value v is <<v>>.     *)
(***************************************************************************)
None == <<>>
Some(v) == <<v>>
IsNone(v) == v = <<>>
Val(v) == v[1]

Dtypes == {"float32", "float64"}
AlgorithmNames == {"full", "auto", "jacobi"}
NCompValues == 0 .. MaxCols
\* defaults of the constructor
DefaultNComponents == 1
DefaultNIter == 15
DefaultTol == "1e-7"

\* input matrices: float32 cuDF DataFrames of every shape, a float64 numpy
\* array, and one object of an unsupported type
Inputs ==
    [kind : {"DataFrame"}, rows : {0, MaxRows}, cols : 1 .. MaxCols,
     dtype : {"float32"}]
    \union {[kind |-> "ndarray", rows |-> MaxRows, cols |-> MaxCols, dtype |-> "float64"],
            [kind |-> "list", rows |-> 1, cols |-> 1, dtype |-> "float32"]}

\* an exception: its type and the pieces of its message
Error(type, msg) == [type |-> type, msg |-> msg]

(***************************************************************************)
(* Conversion of a Python object to a C int, done by Cython on assignment   *)
(* to a struct field: None is not an integer.                              *)
(***************************************************************************)
ToInt(v) ==
    IF IsNone(v) THEN [ok |-> FALSE, val |-> 0] ELSE [ok |-> TRUE, val |-> Val(v)]

(***************************************************************************)
(* Construction.                                                           *)
(***************************************************************************)
TSVDparams(n_components, tol, iterated_power, random_state, svd_solver) ==
    [n_components   |-> Some(n_components),
     svd_solver     |-> Some(svd_solver),
     tol            |-> Some(tol),
     iterated_power |-> Some(iterated_power),
     random_state   |-> random_state,
     n_cols         |-> None,
     n_rows         |-> None,
     \* attributes that only set_params creates (absent reads as None)
     n_iter         |-> None,
     c_algorithm    |-> None]

\* the solver constant of an algorithm name; a KeyError for any other name
_get_algorithm_c_name(algorithm) ==
    CASE algorithm = "full"   -> Some("COV_EIG_DQ")
      [] algorithm = "auto"   -> Some("COV_EIG_DQ")
      [] algorithm = "jacobi" -> Some("COV_EIG_JACOBI")
      [] OTHER                -> None

TruncatedSVD(n_components, tol, n_iter, random_state, algorithm) ==
    [n_components  |-> n_components,
     tol           |-> tol,
     n_iter        |-> n_iter,
     random_state  |-> random_state,
     algorithm     |-> algorithm,
     params        |-> TSVDparams(n_components, tol, n_iter, random_state,
                                  Val(_get_algorithm_c_name(algorithm))),
     gdf_datatype  |-> None,
     trans_input_  |-> None,
     components_   |-> None,
     explained_variance_       |-> None,
     explained_variance_ratio_ |-> None,
     mean_                     |-> None,
     singular_values_          |-> None,
     noise_variance_           |-> None,
     components_ptr               |-> None,
     explained_variance_ptr       |-> None,
     explained_variance_ratio_ptr |-> None,
     singular_values_ptr          |-> None]

\* algorithm names a caller may hand to the constructor
CtorAlgorithms == AlgorithmNames \union {"arpack"}

\* the constructor call: it returns the estimator, or raises TypeError for an
\* algorithm name outside 'full', 'auto', 'jacobi'
__init__(n_components, tol, n_iter, random_state, algorithm) ==
    IF algorithm \in AlgorithmNames
    THEN [outcome |-> "returned", error |-> Error("", <<>>),
          est |-> Some(TruncatedSVD(n_components, tol, n_iter, random_state,
                                    algorithm))]
    ELSE [outcome |-> "raised",
          error |-> Error("TypeError",
                          <<"algorithm ", algorithm, " is not supported">>),
          est |-> None]

(***************************************************************************)
(* What a call lets its caller observe: how it ended, the native routine   *)
(* it invoked (if any) with the arguments passed, the number of output     *)
(* buffers it allocated, and its return value.                             *)
(***************************************************************************)
Obs(op, input, outcome, error, call, allocated, result) ==
    [op |-> op, input |-> input, outcome |-> outcome, error |-> error,
     call |-> call, allocated |-> allocated, result |-> result]

NoError == Error("", <<>>)
NoCall == Obs("none", None, "returned", NoError, None, 0, None)

Raised(op, input, error, allocated) ==
    Obs(op, input, "raised", error, None, allocated, None)

\* the C element type a native overload is declared with
VariantOf(dtype) == IF dtype = "float32" THEN "float" ELSE "double"

(***************************************************************************)
(* Buffers.  A buffer is known by the attribute or local name it was       *)
(* allocated for, its element type and the factors of its element count;   *)
(* a pointer is the same minus the contents.                               *)
(***************************************************************************)
RECURSIVE Product(_)
Product(dims) == IF dims = <<>> THEN 1 ELSE Head(dims) * Product(Tail(dims))

ZeroBuffer(name, dtype, dims, form) ==
    [name |-> name, dtype |-> dtype, dims |-> dims,
     content |-> "zero", form |-> form]

Ptr(b) == [name |-> b.name, dtype |-> b.dtype, dims |-> b.dims]

\* What the array library does with an array of no elements is not fixed by
\* the wrapper: the device allocation is refused ("raise"), or it yields a
\* null device pointer whose ctypes value is None ("null"), or it yields a
\* usable pointer ("ok").
EmptyOutcomes == {"raise", "null", "ok"}

\* np.zeros(size) followed by the copy to the device: a negative size is
\* rejected by numpy
AllocOk(size, emptyOk) == size > 0 \/ (size = 0 /\ emptyOk # "raise")

\* obj.device_ctypes_pointer.value converted to uintptr_t
PtrOk(size, emptyOk) == size > 0 \/ (size = 0 /\ emptyOk = "ok")

NullPointerError == Error("TypeError", <<"an integer is required">>)

AllocError(size) ==
    IF size < 0
    THEN Error("ValueError", <<"negative dimensions are not allowed">>)
    ELSE Error("CudaAPIError", <<"zero-size device allocation">>)

\* the seven allocations of _initialize_arrays, in program order
ArrayPlan(n_components, n_rows, n_cols) ==
    << [name |-> "trans_input_", dims |-> <<n_rows, n_components>>, form |-> "device"],
       [name |-> "components_", dims |-> <<n_components, n_cols>>, form |-> "device"],
       [name |-> "explained_variance_", dims |-> <<n_components>>, form |-> "Series"],
       [name |-> "explained_variance_ratio_", dims |-> <<n_components>>, form |-> "Series"],
       [name |-> "mean_", dims |-> <<n_cols>>, form |-> "Series"],
       [name |-> "singular_values_", dims |-> <<n_components>>, form |-> "Series"],
       [name |-> "noise_variance_", dims |-> <<1>>, form |-> "Series"] >>

\* number of allocations of the plan that succeed before the first failure
Allocated(plan, emptyOk) ==
    LET bad == {i \in DOMAIN plan : ~AllocOk(Product(plan[i].dims), emptyOk)}
    IN  IF bad = {} THEN Len(plan)
        ELSE (CHOOSE i \in bad : \A j \in bad : i <= j) - 1

_initialize_arrays(e, n_components, n_rows, n_cols, emptyOk) ==
    LET plan == ArrayPlan(n_components, n_rows, n_cols)
        done == Allocated(plan, emptyOk)
        dtype == Val(e.gdf_datatype)
        new(i) == Some(ZeroBuffer(plan[i].name, dtype, plan[i].dims, plan[i].form))
        e1 == [e EXCEPT
                 !.trans_input_ = IF done >= 1 THEN new(1) ELSE @,
                 !.components_ = IF done >= 2 THEN new(2) ELSE @,
                 !.explained_variance_ = IF done >= 3 THEN new(3) ELSE @,
                 !.explained_variance_ratio_ = IF done >= 4 THEN new(4) ELSE @,
                 !.mean_ = IF done >= 5 THEN new(5) ELSE @,
                 !.singular_values_ = IF done >= 6 THEN new(6) ELSE @,
                 !.noise_variance_ = IF done >= 7 THEN new(7) ELSE @]
    IN  [est |-> e1,
         allocated |-> done,
         raised |-> done < Len(plan),
         error |-> IF done < Len(plan)
                   THEN AllocError(Product(plan[done + 1].dims))
                   ELSE NoError]

(***************************************************************************)
(* The native boundary.                                                    *)
(***************************************************************************)
\* a call of a native routine: the overload chosen and what it is handed
Native(routine, variant, prms, buffers) ==
    [routine |-> routine, variant |-> variant, prms |-> prms,
     buffers |-> buffers]

\* the device copy X_m of an input, and a buffer local to one call
LocalPtr(name, dtype, dims) ==
    [name |-> name, dtype |-> dtype, dims |-> dims]

NullPtr == [name |-> "NULL", dtype |-> "void", dims |-> <<>>]

\* variant: a missing pointer converts to NULL instead of raising
ToUintptrNullable(v) ==
    IF IsNone(v) THEN [ok |-> TRUE, val |-> NullPtr] ELSE [ok |-> TRUE, val |-> Val(v)]

\* conversion of a stored pointer attribute to uintptr_t
ToUintptr(v) ==
    IF IsNone(v) THEN [ok |-> FALSE, val |-> NullPtr] ELSE [ok |-> TRUE, val |-> Val(v)]

\* a fit routine writes through every pointer it is handed except input
NativeWrites(buffers) ==
    {buffers[role] : role \in DOMAIN buffers \ {"input"}}

Written(b, buffers) ==
    IF Ptr(Val(b)) \in NativeWrites(buffers)
    THEN Some([Val(b) EXCEPT !.content = "written"])
    ELSE b

(***************************************************************************)
(* fit                                                                     *)
(***************************************************************************)
\* variant: the test of the _transform flag inverted
FitRoutineSwapped(_transform) ==
    IF _transform THEN "tsvdFit" ELSE "tsvdFitTransform"

\* the routine chosen by the _transform flag
FitRoutine(_transform) ==
    IF ~_transform THEN "tsvdFit" ELSE "tsvdFitTransform"

\* the buffers each fit routine is handed
FitBuffers(routine, e, X) ==
    IF routine = "tsvdFit"
    THEN [input |-> LocalPtr("X_m", X.dtype, <<X.rows, X.cols>>),
          components |-> Ptr(Val(e.components_)),
          singular_vals |-> Ptr(Val(e.singular_values_))]
    ELSE [input |-> LocalPtr("X_m", X.dtype, <<X.rows, X.cols>>),
          trans_input |-> Ptr(Val(e.trans_input_)),
          components |-> Ptr(Val(e.components_)),
          explained_var |-> Ptr(Val(e.explained_variance_)),
          explained_var_ratio |-> Ptr(Val(e.explained_variance_ratio_)),
          singular_vals |-> Ptr(Val(e.singular_values_))]

\* the estimator once the native fit has returned: the buffers it wrote,
\* components_ repackaged as a DataFrame, the four pointers stored
FitStore(e, buffers) ==
    LET w == [e EXCEPT
                !.trans_input_ = Written(@, buffers),
                !.components_ = Written(@, buffers),
                !.explained_variance_ = Written(@, buffers),
                !.explained_variance_ratio_ = Written(@, buffers),
                !.singular_values_ = Written(@, buffers)]
    IN  [w EXCEPT
           !.components_ = Some([Val(w.components_) EXCEPT !.form = "DataFrame"]),
           !.components_ptr = Some(Ptr(Val(e.components_))),
           !.explained_variance_ptr = Some(Ptr(Val(e.explained_variance_))),
           !.explained_variance_ratio_ptr = Some(Ptr(Val(e.explained_variance_ratio_))),
           !.singular_values_ptr = Some(Ptr(Val(e.singular_values_)))]

fit(e, X, _transform, emptyOk, op) ==
    LET in == Some([X |-> X, _transform |-> _transform])
    IN
    IF X.kind \notin {"DataFrame", "ndarray"}
    THEN [est |-> e,
          obs |-> Raised(op, in, Error("TypeError", <<"X matrix format  not supported">>), 0)]
    ELSE
    LET e1 == [e EXCEPT !.gdf_datatype = Some(X.dtype)]
    IN
    IF ~AllocOk(X.rows * X.cols, emptyOk)
    THEN [est |-> e1, obs |-> Raised(op, in, AllocError(X.rows * X.cols), 0)]
    ELSE
    LET e2 == [e1 EXCEPT !.params.n_rows = Some(X.rows),
                         !.params.n_cols = Some(X.cols)]
        nc == ToInt(e2.params.n_components)
        nr == ToInt(e2.params.n_rows)
        ncl == ToInt(e2.params.n_cols)
        it == ToInt(e2.params.iterated_power)
    IN
    IF ~(nc.ok /\ nr.ok /\ ncl.ok /\ it.ok /\ ~IsNone(e2.params.tol)
         /\ ~IsNone(e2.params.svd_solver))
    THEN [est |-> e2,
          obs |-> Raised(op, in, Error("TypeError", <<"an integer is required">>), 0)]
    ELSE
    LET prms == [n_components |-> nc.val, n_rows |-> nr.val, n_cols |-> ncl.val,
                 n_iterations |-> it.val, tol |-> Val(e2.params.tol),
                 algorithm |-> Val(e2.params.svd_solver)]
        init == _initialize_arrays(e2, nc.val, nr.val, ncl.val, emptyOk)
        \* the five buffers whose pointers fit takes
        plan == SelectSeq(ArrayPlan(nc.val, nr.val, ncl.val),
                          LAMBDA b : b.name \notin {"mean_", "noise_variance_"})
    IN
    IF ~PtrOk(X.rows * X.cols, emptyOk)
    THEN [est |-> e2, obs |-> Raised(op, in, NullPointerError, 0)]
    ELSE IF init.raised
    THEN [est |-> init.est, obs |-> Raised(op, in, init.error, init.allocated)]
    ELSE IF \E i \in DOMAIN plan : ~PtrOk(Product(plan[i].dims), emptyOk)
    THEN [est |-> init.est, obs |-> Raised(op, in, NullPointerError, init.allocated)]
    ELSE IF nc.val > ncl.val
    THEN [est |-> init.est,
          obs |-> Raised(op, in,
                         Error("ValueError", <<" n_components must be < n_features">>),
                         init.allocated)]
    ELSE
    LET routine == FitRoutine(_transform)
        call == Native(routine, VariantOf(Val(init.est.gdf_datatype)), prms,
                       FitBuffers(routine, init.est, X))
    IN  [est |-> FitStore(init.est, call.buffers),
         obs |-> Obs(op, in, "returned", NoError, Some(call), init.allocated, None)]

\* fit_transform: fit with _transform = True, then the columns of
\* trans_input_ as a DataFrame of n_components columns
fit_transform(e, X, emptyOk) ==
    LET r == fit(e, X, TRUE, emptyOk, "fit_transform")
    IN  IF r.obs.outcome = "raised" THEN r
        ELSE [est |-> r.est,
              obs |-> [r.obs EXCEPT !.result =
                         Some(LocalPtr("X_new", Val(r.est.trans_input_).dtype,
                                       <<Val(r.est.params.n_rows),
                                         Val(r.est.params.n_components)>>))]]

(***************************************************************************)
(* transform and inverse_transform                                         *)
(***************************************************************************)
\* variant: the input's shape stored on self.params, as fit does
ShapeStored(e, X) ==
    [e EXCEPT !.params.n_rows = Some(X.rows), !.params.n_cols = Some(X.cols)]

\* transform binds the input's shape to the local names n_rows and n_cols:
\* no attribute of the estimator is assigned
ShapeLocal(e, X) == e

transform(e, X, emptyOk) ==
    LET in == Some([X |-> X])
        op == "transform"
    IN
    IF X.kind \notin {"DataFrame", "ndarray"}
    THEN [est |-> e,
          obs |-> Raised(op, in, Error("TypeError", <<"X matrix format  not supported">>), 0)]
    ELSE IF ~AllocOk(X.rows * X.cols, emptyOk)
    THEN [est |-> e, obs |-> Raised(op, in, AllocError(X.rows * X.cols), 0)]
    ELSE
    LET e1 == ShapeLocal(e, X)
        nc == ToInt(e1.params.n_components)
        ncl == ToInt(e1.params.n_cols)
        n_rows == X.rows
    IN
    IF ~PtrOk(X.rows * X.cols, emptyOk)
    THEN [est |-> e1, obs |-> Raised(op, in, NullPointerError, 0)]
    ELSE IF ~(nc.ok /\ ncl.ok)
    THEN [est |-> e1,
          obs |-> Raised(op, in, Error("TypeError", <<"an integer is required">>), 0)]
    ELSE IF ~AllocOk(n_rows * nc.val, emptyOk)
    THEN [est |-> e1, obs |-> Raised(op, in, AllocError(n_rows * nc.val), 0)]
    ELSE IF ~PtrOk(n_rows * nc.val, emptyOk)
    THEN [est |-> e1, obs |-> Raised(op, in, NullPointerError, 1)]
    ELSE
    LET cp == ToUintptr(e1.components_ptr)
    IN
    IF ~cp.ok
    THEN [est |-> e1,
          obs |-> Raised(op, in, Error("TypeError", <<"an integer is required">>), 1)]
    ELSE
    LET prms == [n_components |-> nc.val, n_rows |-> n_rows, n_cols |-> ncl.val]
        out == LocalPtr("trans_input_data", X.dtype, <<n_rows, nc.val>>)
        call == Native("tsvdTransform", VariantOf(X.dtype), prms,
                       [input |-> LocalPtr("X_m", X.dtype, <<X.rows, X.cols>>),
                        components |-> cp.val,
                        trans_input |-> out])
    IN  [est |-> e1,
         obs |-> Obs(op, in, "returned", NoError, Some(call), 1,
                     Some(LocalPtr("X_new", X.dtype, <<n_rows, nc.val>>)))]

inverse_transform(e, X, emptyOk) ==
    LET in == Some([X |-> X])
        op == "inverse_transform"
    IN
    IF X.kind \notin {"DataFrame", "ndarray"}
    THEN [est |-> e,
          obs |-> Raised(op, in, Error("TypeError", <<"X matrix format  not supported">>), 0)]
    ELSE IF ~AllocOk(X.rows * X.cols, emptyOk)
    THEN [est |-> e, obs |-> Raised(op, in, AllocError(X.rows * X.cols), 0)]
    ELSE
    LET nc == ToInt(e.params.n_components)
        ncl == ToInt(e.params.n_cols)
        n_rows == X.rows
    IN
    IF ~PtrOk(X.rows * X.cols, emptyOk)
    THEN [est |-> e, obs |-> Raised(op, in, NullPointerError, 0)]
    ELSE IF ~(nc.ok /\ ncl.ok)
    THEN [est |-> e,
          obs |-> Raised(op, in, Error("TypeError", <<"an integer is required">>), 0)]
    ELSE IF ~AllocOk(n_rows * ncl.val, emptyOk)
    THEN [est |-> e, obs |-> Raised(op, in, AllocError(n_rows * ncl.val), 0)]
    ELSE
    LET cp == ToUintptr(e.components_ptr)
    IN
    IF ~cp.ok
    THEN [est |-> e,
          obs |-> Raised(op, in, Error("TypeError", <<"an integer is required">>), 1)]
    ELSE
    LET prms == [n_components |-> nc.val, n_rows |-> n_rows, n_cols |-> ncl.val]
        out == LocalPtr("input_data", X.dtype, <<n_rows, ncl.val>>)
        call == Native("tsvdInverseTransform", VariantOf(X.dtype), prms,
                       [trans_input |-> LocalPtr("X_m", X.dtype, <<X.rows, X.cols>>),
                        components |-> cp.val,
                        input |-> out])
    IN  [est |-> e,
         obs |-> Obs(op, in, "returned", NoError, Some(call), 1,
                     Some(LocalPtr("X_original", X.dtype, <<n_rows, ncl.val>>)))]

(***************************************************************************)
(* get_params and set_params                                               *)
(***************************************************************************)
GetParamsVariables ==
    {"n_components", "algorithm", "svd_solver", "tol", "n_iter",
     "random_state", "iterated_power", "n_cols", "n_rows"}

SetParamsVariables ==
    {"n_components", "algorithm", "tol", "svd_solver", "n_iter",
     "random_state", "c_algorithm", "iterated_power"}

\* getattr(obj, key, None)
GetAttr(obj, key) == IF key \in DOMAIN obj THEN obj[key] ELSE None

get_params(e) ==
    [key \in GetParamsVariables |->
        IF key = "algorithm" THEN Some(e.algorithm) ELSE GetAttr(e.params, key)]

\* the message of the error for an unknown key: the literal is raised as
\* written, no value is substituted for its %s
InvalidParameterMessage(key) == <<"Invalid parameter ", "%s", " for estimator">>

\* the loop over params.items(), from item i on
RECURSIVE set_params_loop(_, _, _, _)
set_params_loop(e, updates, i, in) ==
    IF i > Len(updates)
    THEN [est |-> e,
          obs |-> Obs("set_params", in, "returned", NoError, None, 0, None)]
    ELSE
    LET key == updates[i][1]
        value == updates[i][2]
    IN
    IF key \notin SetParamsVariables
    THEN [est |-> e,
          obs |-> Raised("set_params", in,
                         Error("ValueError", InvalidParameterMessage(key)), 0)]
    ELSE IF key = "algorithm"
    THEN LET e1 == [e EXCEPT !.algorithm = Val(value)]
             c == _get_algorithm_c_name(Val(value))
         IN  IF IsNone(c)
             THEN [est |-> e1,
                   obs |-> Raised("set_params", in,
                                  Error("KeyError", <<Val(value)>>), 0)]
             ELSE set_params_loop([e1 EXCEPT !.params.svd_solver = c],
                                  updates, i + 1, in)
    ELSE set_params_loop([e EXCEPT !.params[key] = value], updates, i + 1, in)

set_params(e, updates) == set_params_loop(e, updates, 1, Some(updates))

(***************************************************************************)
(* The calls a client makes.                                               *)
(***************************************************************************)
UpdateItems ==
    {<<"n_components", Some(MaxCols)>>}
    \union {<<"algorithm", Some(a)>> : a \in {"jacobi", "arpack"}}
    \union {<<"n_iter", Some(20)>>}
    \union {<<"verbose", Some(1)>>}

\* keyword arguments: up to MaxUpdates items with distinct keys, in order
RECURSIVE SeqsUpTo(_, _)
SeqsUpTo(S, n) ==
    IF n = 0 THEN {<<>>}
    ELSE LET shorter == SeqsUpTo(S, n - 1)
         IN  shorter \union
             {Append(u, x) : u \in {w \in shorter : Len(w) = n - 1}, x \in S}

Updates ==
    {u \in SeqsUpTo(UpdateItems, MaxUpdates) :
        \A i, j \in DOMAIN u : i # j => u[i][1] # u[j][1]}

\* the value a set_params call on e took for a key: None if the key is
\* absent or the call raised on an item before it
Given(e, updates, key) ==
    LET at == {i \in DOMAIN updates : updates[i][1] = key}
        i == CHOOSE j \in at : TRUE
    IN  IF at = {} THEN None
        ELSE IF set_params(e, SubSeq(updates, 1, i)).obs.outcome = "raised"
        THEN None
        ELSE updates[i][2]

\* the state after TruncatedSVD(n_components=..., algorithm=...), the other
\* arguments at their defaults, on a library build with the given treatment
\* of empty arrays
Constructed(n_components, algorithm, outcome) ==
    /\ est = TruncatedSVD(n_components, DefaultTol, DefaultNIter, None, algorithm)
    /\ hist = [ctor |-> [n_components |-> n_components, tol |-> DefaultTol,
                         n_iter |-> DefaultNIter, random_state |-> None,
                         algorithm |-> algorithm],
               fitted |-> FALSE,
               set_params_called |-> FALSE,
               last_fit |-> None,
               n_iter_set |-> None]
    /\ last = NoCall
    /\ lib = outcome

Init ==
    \/ Constructed(DefaultNComponents, "full", "ok")
    \/ \E n_components \in NCompValues : Constructed(n_components, "full", "ok")

FitDone(r, X) ==
    /\ est' = r.est
    /\ last' = r.obs
    /\ hist' = [hist EXCEPT !.fitted = @ \/ r.obs.outcome = "returned",
                            !.last_fit = Some(X)]
    /\ UNCHANGED lib


Fit ==
    \E X \in Inputs, _transform \in BOOLEAN :
        FitDone(fit(est, X, _transform, lib, "fit"), X)

FitTransform ==
    \E X \in Inputs :
        FitDone(fit_transform(est, X, lib), X)

Transform ==
    \E X \in Inputs :
        LET r == transform(est, X, lib)
        IN  /\ est' = r.est
            /\ last' = r.obs
            /\ UNCHANGED <<hist, lib>>

InverseTransform ==
    \E X \in Inputs :
        LET r == inverse_transform(est, X, lib)
        IN  /\ est' = r.est
            /\ last' = r.obs
            /\ UNCHANGED <<hist, lib>>

GetParams ==
    /\ last' = Obs("get_params", None, "returned", NoError, None, 0,
                   Some(get_params(est)))
    /\ UNCHANGED <<est, hist, lib>>

SetParams ==
    \E updates \in Updates :
        LET r == set_params(est, updates)
        IN  /\ est' = r.est
            /\ last' = r.obs
            /\ hist' = [hist EXCEPT
                          !.set_params_called = TRUE,
                          !.n_iter_set =
                              IF ~IsNone(Given(est, updates, "n_iter"))
                              THEN Given(est, updates, "n_iter") ELSE @]
            /\ UNCHANGED lib

Next ==
    \/ Fit
    \/ FitTransform
    \/ Transform
    \/ InverseTransform
    \/ GetParams
    \/ SetParams

Spec == Init /\ [][Next]_vars

\* fit and the two projections, on every treatment of empty arrays
InitCalls ==
    \/ Init
    \/ \E n_components \in NCompValues \union {0 - 1}, outcome \in EmptyOutcomes :
          Constructed(n_components, "full", outcome)

NextCalls ==
    \/ Fit
    \/ FitTransform
    \/ Transform
    \/ InverseTransform

SpecCalls == InitCalls /\ [][NextCalls]_vars

\* the parameter interface, on every estimator the constructor returns
InitParams ==
    \/ Init
    \/ \E n_components \in NCompValues, algorithm \in CtorAlgorithms :
          /\ __init__(n_components, DefaultTol, DefaultNIter, None,
                      algorithm).outcome = "returned"
          /\ Constructed(n_components, algorithm, "ok")

NextParams ==
    \/ Fit
    \/ GetParams
    \/ SetParams

SpecParams == InitParams /\ [][NextParams]_vars

(***************************************************************************)
(* Properties.                                                             *)
(***************************************************************************)
FitOps == {"fit", "fit_transform"}
ProjectionOps == {"transform", "inverse_transform"}
SupportedKinds == {"DataFrame", "ndarray"}
Range(f) == {f[i] : i \in DOMAIN f}

\* the input matrix of the last fit / transform / inverse_transform call
LastX == Val(last.input).X

\* C1: while no fit call has completed, transform and inverse_transform
\* raise and invoke no native routine.
C1_UnfitProjectionRaises ==
    (~hist.fitted /\ last.op \in ProjectionOps)
        => (last.outcome = "raised" /\ IsNone(last.call))

\* a transform on an estimator whose only fit calls raised after storing a shape
C1_Witness ==
    /\ ~hist.fitted
    /\ ~IsNone(hist.last_fit)
    /\ ~IsNone(est.params.n_cols)
    /\ last.op = "transform"
    /\ LastX.kind \in SupportedKinds
    /\ LastX.rows > 0
    /\ last.outcome = "raised"

\* C2: a fit call with n_components greater than the input's column count
\* raises before the native routine, allocates no output buffer and leaves
\* the stored shape, the result attributes and the stored pointers as they
\* were before the call.
C2_TooManyComponentsNoEffect ==
    [][(/\ last'.op \in FitOps
        /\ Val(last'.input).X.kind \in SupportedKinds
        /\ Val(est.params.n_components) > Val(last'.input).X.cols)
       => (/\ last'.outcome = "raised"
           /\ IsNone(last'.call)
           /\ last'.allocated = 0
           /\ est'.params.n_rows = est.params.n_rows
           /\ est'.params.n_cols = est.params.n_cols
           /\ est'.components_ = est.components_
           /\ est'.singular_values_ = est.singular_values_
           /\ est'.explained_variance_ = est.explained_variance_
           /\ est'.explained_variance_ratio_ = est.explained_variance_ratio_
           /\ est'.components_ptr = est.components_ptr
           /\ est'.explained_variance_ptr = est.explained_variance_ptr
           /\ est'.explained_variance_ratio_ptr = est.explained_variance_ratio_ptr
           /\ est'.singular_values_ptr = est.singular_values_ptr)]_vars

\* the shape the stored components buffer was fitted with
FittedNComponents == Val(est.components_ptr).dims[1]
FittedNCols == Val(est.components_ptr).dims[2]

\* C3: on a fitted estimator, transform raises without a native call when the
\* input's column count differs from the n_cols of the fit, and
\* inverse_transform when it differs from the fitted n_components.
C3_ColumnMismatchRaises ==
    (/\ hist.fitted
     /\ last.op \in ProjectionOps
     /\ LastX.kind \in SupportedKinds
     /\ LastX.cols # (IF last.op = "transform" THEN FittedNCols
                      ELSE FittedNComponents))
        => (last.outcome = "raised" /\ IsNone(last.call))

\* C4: a fit call with n_components < 1 or an input of fewer than one row
\* raises before any buffer is allocated and before the native routine.
C4_DegenerateFitRaises ==
    (/\ last.op \in FitOps
     /\ LastX.kind \in SupportedKinds
     /\ (Val(est.params.n_components) < 1 \/ LastX.rows < 1))
        => (last.outcome = "raised" /\ last.allocated = 0 /\ IsNone(last.call))

\* C5: transform and inverse_transform, returning or raising, leave the
\* estimator as it was, and a transform repeated with the same input hands
\* the native routine the same arguments.
C5_ProjectionFrame ==
    [][(last'.op \in ProjectionOps)
       => (/\ est' = est
           /\ (last.op = last'.op /\ last.input = last'.input)
                 => last'.call = last.call)]_vars

\* a projection that reached the native routine
C5_Witness ==
    /\ last.op \in ProjectionOps
    /\ last.outcome = "returned"
    /\ ~IsNone(last.call)
    /\ hist.fitted

\* C6: every buffer handed to the native routine by transform or
\* inverse_transform has the element type of the overload invoked.
C6_SinglePrecision ==
    (last.op \in ProjectionOps /\ ~IsNone(last.call))
        => \A role \in DOMAIN Val(last.call).buffers :
              VariantOf(Val(last.call).buffers[role].dtype) = Val(last.call).variant

\* C7: a successful fit invokes the fit-only routine with three buffers when
\* _transform is False, leaving the variances and the transformed buffer
\* zero, and the fit-transform routine with six buffers when _transform is
\* True, which is what fit_transform passes.
C7_FitRoutine ==
    (last.op \in FitOps /\ last.outcome = "returned")
        => /\ ~IsNone(last.call)
           /\ (last.op = "fit_transform" => Val(last.input)._transform)
           /\ IF ~Val(last.input)._transform
              THEN /\ Val(last.call).routine = "tsvdFit"
                   /\ DOMAIN Val(last.call).buffers
                        = {"input", "components", "singular_vals"}
                   /\ Val(est.explained_variance_).content = "zero"
                   /\ Val(est.explained_variance_ratio_).content = "zero"
                   /\ Val(est.trans_input_).content = "zero"
              ELSE /\ Val(last.call).routine = "tsvdFitTransform"
                   /\ DOMAIN Val(last.call).buffers
                        = {"input", "trans_input", "components", "explained_var",
                           "explained_var_ratio", "singular_vals"}

\* a fit with _transform = False that returned
C7_Witness ==
    /\ last.op = "fit"
    /\ last.outcome = "returned"
    /\ ~Val(last.input)._transform
    /\ Val(est.components_).content = "written"

\* the keys of a set_params call that are not accepted parameter names
Offending(updates) ==
    {updates[i][1] : i \in {j \in DOMAIN updates : updates[j][1] \notin SetParamsVariables}}

\* C8: set_params with a key outside the accepted names raises an error
\* that names such a key.
C8_UnknownKeyNamed ==
    (last.op = "set_params" /\ Offending(Val(last.input)) # {})
        => /\ last.outcome = "raised"
           /\ \E key \in Offending(Val(last.input)) : key \in Range(last.error.msg)

\* C9: until set_params is called, get_params returns the constructor's
\* n_components, algorithm, tol, n_iter and random_state, and n_rows, n_cols
\* unset before the first fit and those of the latest fit input afterwards.
C9_GetParamsReturnsConstructorValues ==
    (last.op = "get_params" /\ ~hist.set_params_called)
        => LET got == Val(last.result)
           IN  /\ got["n_components"] = Some(hist.ctor.n_components)
               /\ got["algorithm"] = Some(hist.ctor.algorithm)
               /\ got["tol"] = Some(hist.ctor.tol)
               /\ got["n_iter"] = Some(hist.ctor.n_iter)
               /\ got["random_state"] = hist.ctor.random_state
               /\ IF IsNone(hist.last_fit)
                  THEN IsNone(got["n_rows"]) /\ IsNone(got["n_cols"])
                  ELSE Val(hist.last_fit).kind \in SupportedKinds
                         => /\ got["n_rows"] = Some(Val(hist.last_fit).rows)
                            /\ got["n_cols"] = Some(Val(hist.last_fit).cols)

\* C10: whenever transform or inverse_transform invokes the native routine,
\* the n_components and n_cols passed are those the components buffer it
\* passes was allocated and filled with.
C10_ShapeMatchesComponents ==
    (last.op \in ProjectionOps /\ ~IsNone(last.call))
        => /\ Val(last.call).prms.n_components
                = Val(last.call).buffers["components"].dims[1]
           /\ Val(last.call).prms.n_cols
                = Val(last.call).buffers["components"].dims[2]

\* C11: in every state of a constructed estimator, whatever set_params calls
\* were made (raising ones included), the algorithm name is one of 'full',
\* 'auto', 'jacobi' and the solver constant a fit hands to the native
\* routine is the one that name maps to; the constructor raises for any
\* other algorithm name.
C11_AlgorithmNameAndSolver ==
    /\ est.algorithm \in AlgorithmNames
    /\ (last.op \in FitOps /\ ~IsNone(last.call))
          => Some(Val(last.call).prms.algorithm)
                = _get_algorithm_c_name(est.algorithm)
    /\ \A algorithm \in CtorAlgorithms \ AlgorithmNames :
          __init__(hist.ctor.n_components, hist.ctor.tol, hist.ctor.n_iter,
                   hist.ctor.random_state, algorithm).outcome = "raised"

\* the estimator's current n_iter: the constructor's, or the one taken by the
\* latest set_params(n_iter=v) call
CurrentNIter ==
    IF IsNone(hist.n_iter_set) THEN hist.ctor.n_iter ELSE Val(hist.n_iter_set)

\* C12: the iteration cap a fit hands to the native routine is the
\* estimator's current n_iter: the constructor's n_iter or, once
\* set_params(n_iter=v) has been called, the v of the latest such call.
C12_FitPassesCurrentNIter ==
    (last.op \in FitOps /\ ~IsNone(last.call))
        => Val(last.call).prms.n_iterations = CurrentNIter
====
